---- MODULE Spec2Model ----
(***************************************************************************)
(* Descriptor-interest state machine of EosSdk's file.cpp: the registry    *)
(* that pairs file_handler objects with their FileHandlerSm, the           *)
(* per-descriptor FileDescriptorSm records with their three interest       *)
(* flags, the interest setters and the readiness dispatch. With it, the    *)
(* lazy manager accessors of sdk (inline/sdk.h) and the resync of          *)
(* class_map_mgr as class_map.h documents it.                              *)
(***************************************************************************)
EXTENDS Integers, FiniteSets, Sequences, TLC

\* Number of file_handler addresses the caller constructs handlers at.
MaxHandlers == 2
\* Number of heap addresses a FileHandlerSm can be allocated at.
MaxNodes == 2
\* Descriptor numbers are 1..MaxFd.
MaxFd == 1
\* Number of FileDescriptorSm records that exist at once, over all handlers.
MaxRecords == 1
\* The frame of a setter is examined with descriptors 1..MaxFrameFd and up to
\* MaxFrameRecords FileDescriptorSm records at once.
MaxFrameFd == 2
MaxFrameRecords == 2
\* Number of sdk managers modelled, the first ones in the order of the accessors.
MaxMgrs == 5
\* Number of init_<X>_mgr() invocations followed per manager.
MaxInits == 2
\* Class map keys are 1..MaxCmKeys, class map contents 1..MaxCmBodies.
MaxCmKeys == 2
MaxCmBodies == 2

\* The null pointer: a default-constructed Ptr or file_handler *.
NULL == 0

Handlers == 1..MaxHandlers
Nodes == 1..MaxNodes
Fds == 1..MaxFd
Kinds == {"readable", "writable", "exception"}

VARIABLES
    live,                        \* file_handler objects constructed and not yet destroyed
    fileHandlerToFileHandlerSm,  \* std::map< file_handler *, FileHandlerSm::Ptr >
    fileHandlerSmToFileHandler,  \* std::map< FileHandlerSm *, file_handler * >
    fileHandlerSms,              \* the allocated FileHandlerSm objects, each its fileDescriptorSm collection
    halted,                      \* "run", or how the process ended
    running,                     \* the callbacks invoked by the event being dispatched, not yet returned
    leftover,                    \* a FileDescriptorSm that outlived its FileHandlerSm, with an event pending
    requested,                   \* per handler and fd, the kinds whose latest setter call passed interest = true
    withdrawn,                   \* the (handler, fd) pairs whose last interest was withdrawn and not set again
    destructed,                  \* the latest destructor call: the handler, the fds of the records it had, and whether it was destroyed before
    mgr_,                        \* sdk: the manager pointers acl_mgr_, agent_mgr_, ...
    initCalls,                   \* sdk: per manager, how many times init_<X>_mgr() was invoked
    returned,                    \* sdk: what the latest accessor call returned
    looping,                     \* sdk: main_loop() was entered
    sysdb,                       \* class_map_mgr: the class maps configured in Sysdb
    inResync,                    \* class_map_mgr: between resync_init() and resync_complete()
    resyncTable,                 \* class_map_mgr: the temporary table of the resync
    resyncLatest,                \* class_map_mgr: per key, the caller's latest set or delete in the resync under way or just completed
    preResync,                   \* class_map_mgr: the keys configured when that resync began
    answer                       \* class_map_mgr: what the latest query returned

fileVars == <<live, fileHandlerToFileHandlerSm, fileHandlerSmToFileHandler,
              fileHandlerSms, halted, running, leftover, requested, withdrawn,
              destructed>>

sdkVars == <<mgr_, initCalls, returned, looping>>

classMapVars == <<sysdb, inResync, resyncTable, resyncLatest, preResync, answer>>

vars == <<fileVars, sdkVars, classMapVars>>

-----------------------------------------------------------------------------
(* std::map and Tac collection primitives *)

Put(m, k, v) == [x \in DOMAIN m \cup {k} |-> IF x = k THEN v ELSE m[x]]

\* std::map::erase( key )
MapErase(m, k) == [x \in DOMAIN m \ {k} |-> m[x]]

\* std::map::operator[]: a missing key is inserted with a default (null) value
MapTouch(m, k) == IF k \in DOMAIN m THEN m ELSE Put(m, k, NULL)

EmptyMap == [x \in {} |-> NULL]

\* The registry and the heap, as the functions below transform them.
World == [h2sm   |-> fileHandlerToFileHandlerSm,
          sm2h   |-> fileHandlerSmToFileHandler,
          heap   |-> fileHandlerSms,
          halted |-> "run"]

\* A failed assert (or, with NDEBUG, the null dereference that follows it).
Fault(w) == [w EXCEPT !.halted = "fault"]

\* Tac::FileDescriptor::FileDescriptorIs( "FileDescriptor" )
FileDescriptorIs ==
    [descriptor |-> NULL, notifyOnReadable |-> FALSE,
     notifyOnWritable |-> FALSE, notifyOnException |-> FALSE]

\* Bug variant: a lookup that does not create a missing FileDescriptorSm.
fileDescriptorSmIs_LookupOnly(w, sm, fd, fileDescriptor, owner) == w

\* FileHandlerSm::fileDescriptorSmIs( fd, fileDescriptor, fileHandlerSm ): get or create
fileDescriptorSmIs(w, sm, fd, fileDescriptor, owner) ==
    IF fd \in DOMAIN w.heap[sm] THEN w
    ELSE [w EXCEPT !.heap[sm] =
             Put(@, fd, [fd |-> fd, fileDescriptor |-> fileDescriptor,
                         fileHandlerSm |-> owner])]

\* Bug variant: the whole collection is cleared instead of one member.
fileDescriptorSmDel_WholeCollection(w, sm, fd) == [w EXCEPT !.heap[sm] = EmptyMap]

\* FileHandlerSm::fileDescriptorSmDel( fd )
fileDescriptorSmDel(w, sm, fd) == [w EXCEPT !.heap[sm] = MapErase(@, fd)]

\* Bug variant: the descriptor number is never set.
descriptorIs_Unset(w, sm, fd, d) == w

\* Tac::FileDescriptor::descriptorIs( fd )
descriptorIs(w, sm, fd, d) ==
    [w EXCEPT !.heap[sm][fd].fileDescriptor.descriptor = d]

\* Tac::FileDescriptor::notifyOnReadableIs / notifyOnWritableIs / notifyOnExceptionIs
notifyOnReadableIs(w, sm, fd, interest) ==
    [w EXCEPT !.heap[sm][fd].fileDescriptor.notifyOnReadable = interest]

notifyOnWritableIs(w, sm, fd, interest) ==
    [w EXCEPT !.heap[sm][fd].fileDescriptor.notifyOnWritable = interest]

notifyOnExceptionIs(w, sm, fd, interest) ==
    [w EXCEPT !.heap[sm][fd].fileDescriptor.notifyOnException = interest]

\* A FileHandlerSm is freed when the last FileHandlerSm::Ptr to it is gone.
PtrRelease(w) ==
    [w EXCEPT !.heap =
        [n \in {m \in DOMAIN w.heap :
                  \E h \in DOMAIN w.h2sm : w.h2sm[h] = m} |-> w.heap[n]]]

-----------------------------------------------------------------------------
(* file.cpp *)

\* Bug variant: every handler is given the FileHandlerSm that already exists.
file_handler_ctor_SharedSm(w, this, sm) ==
    LET one == IF DOMAIN w.heap = {} THEN sm ELSE CHOOSE n \in DOMAIN w.heap : TRUE
        w1  == [w  EXCEPT !.heap = IF one \in DOMAIN @ THEN @ ELSE Put(@, one, EmptyMap)]
        w2  == [w1 EXCEPT !.sm2h = Put(@, one, this)]
    IN  [w2 EXCEPT !.h2sm = Put(@, this, one)]

\* file_handler::file_handler(), the new FileHandlerSm allocated at address sm
file_handler_ctor(w, this, sm) ==
    LET w1 == [w  EXCEPT !.heap = Put(@, sm, EmptyMap)]
        w2 == [w1 EXCEPT !.sm2h = Put(@, sm, this)]
    IN  [w2 EXCEPT !.h2sm = Put(@, this, sm)]

\* Bug variant: the destructor forgets the state->handler entry.
file_handler_dtor_KeepsReverse(w, this) ==
    LET w1 == [w  EXCEPT !.h2sm = MapTouch(@, this)]
        w3 == [w1 EXCEPT !.h2sm = MapErase(@, this)]
    IN  PtrRelease(w3)

\* Bug variant: the destructor forgets the handler->state entry, so the
\* FileHandlerSm::Ptr in it is never released.
file_handler_dtor_KeepsPtr(w, this) ==
    LET w1 == [w  EXCEPT !.h2sm = MapTouch(@, this)]
        sm == w1.h2sm[this]
        w2 == [w1 EXCEPT !.sm2h = MapErase(@, sm)]
    IN  PtrRelease(w2)

\* file_handler::~file_handler()
file_handler_dtor(w, this) ==
    LET w1 == [w  EXCEPT !.h2sm = MapTouch(@, this)]
        sm == w1.h2sm[this]
        w2 == [w1 EXCEPT !.sm2h = MapErase(@, sm)]
        w3 == [w2 EXCEPT !.h2sm = MapErase(@, this)]
    IN  PtrRelease(w3)

\* get_file_descriptor_sm( file_handler, fd ): the world after it, and the
\* FileHandlerSm the returned FileDescriptorSm belongs to
get_file_descriptor_sm(w, file_handler, fd) ==
    LET w1   == [w EXCEPT !.h2sm = MapTouch(@, file_handler)]
        fhSm == w1.h2sm[file_handler]
    IN  IF fhSm = NULL
        THEN [w |-> Fault(w1), fhSm |-> NULL]
        ELSE [w |-> descriptorIs(
                       fileDescriptorSmIs(w1, fhSm, fd, FileDescriptorIs, fhSm),
                       fhSm, fd, fd),
              fhSm |-> fhSm]

\* Bug variant: || for && in the cleanup condition.
maybeCleanupAfterFileDescriptor_AnyFalse(w, sm, fd) ==
    IF fd \notin DOMAIN w.heap[sm] THEN Fault(w)
    ELSE LET fileDescriptor == w.heap[sm][fd].fileDescriptor
         IN  IF \/ ~fileDescriptor.notifyOnReadable
                \/ ~fileDescriptor.notifyOnWritable
                \/ ~fileDescriptor.notifyOnException
             THEN fileDescriptorSmDel(w, sm, fd)
             ELSE w

\* FileHandlerSm::maybeCleanupAfterFileDescriptor( fd )
maybeCleanupAfterFileDescriptor(w, sm, fd) ==
    IF fd \notin DOMAIN w.heap[sm] THEN Fault(w)
    ELSE LET fileDescriptor == w.heap[sm][fd].fileDescriptor
         IN  IF /\ ~fileDescriptor.notifyOnReadable
                /\ ~fileDescriptor.notifyOnWritable
                /\ ~fileDescriptor.notifyOnException
             THEN fileDescriptorSmDel(w, sm, fd)
             ELSE w

\* Bug variant: the cleanup check after a withdrawal is left out.
read_interest_is_NoCleanup(w, this, fd, interest) ==
    LET g == get_file_descriptor_sm(w, this, fd)
    IN  IF g.w.halted # "run" THEN g.w
        ELSE notifyOnReadableIs(g.w, g.fhSm, fd, interest)

\* file_handler::read_interest_is( fd, interest )
read_interest_is(w, this, fd, interest) ==
    LET g == get_file_descriptor_sm(w, this, fd)
    IN  IF g.w.halted # "run" THEN g.w
        ELSE LET w1 == notifyOnReadableIs(g.w, g.fhSm, fd, interest)
             IN  IF ~interest
                 THEN maybeCleanupAfterFileDescriptor(w1, g.fhSm, fd)
                 ELSE w1

\* Bug variant: the copied setter still sets the readable flag as well.
write_interest_is_AlsoReadable(w, this, fd, interest) ==
    LET g == get_file_descriptor_sm(w, this, fd)
    IN  IF g.w.halted # "run" THEN g.w
        ELSE LET w0 == notifyOnReadableIs(g.w, g.fhSm, fd, interest)
                 w1 == notifyOnWritableIs(w0, g.fhSm, fd, interest)
             IN  IF ~interest
                 THEN maybeCleanupAfterFileDescriptor(w1, g.fhSm, fd)
                 ELSE w1

\* file_handler::write_interest_is( fd, interest )
write_interest_is(w, this, fd, interest) ==
    LET g == get_file_descriptor_sm(w, this, fd)
    IN  IF g.w.halted # "run" THEN g.w
        ELSE LET w1 == notifyOnWritableIs(g.w, g.fhSm, fd, interest)
             IN  IF ~interest
                 THEN maybeCleanupAfterFileDescriptor(w1, g.fhSm, fd)
                 ELSE w1

\* Bug variant: the cleanup check runs before the flag is cleared.
exception_interest_is_CleanupFirst(w, this, fd, interest) ==
    LET g == get_file_descriptor_sm(w, this, fd)
    IN  IF g.w.halted # "run" THEN g.w
        ELSE LET w1 == IF ~interest
                       THEN maybeCleanupAfterFileDescriptor(g.w, g.fhSm, fd)
                       ELSE g.w
             IN  IF fd \in DOMAIN w1.heap[g.fhSm]
                 THEN notifyOnExceptionIs(w1, g.fhSm, fd, interest)
                 ELSE w1

\* Bug variant: the copied setter sets the writable flag.
exception_interest_is_SetsWritable(w, this, fd, interest) ==
    LET g == get_file_descriptor_sm(w, this, fd)
    IN  IF g.w.halted # "run" THEN g.w
        ELSE LET w1 == notifyOnWritableIs(g.w, g.fhSm, fd, interest)
             IN  IF ~interest
                 THEN maybeCleanupAfterFileDescriptor(w1, g.fhSm, fd)
                 ELSE w1

\* file_handler::exception_interest_is( fd, interest )
exception_interest_is(w, this, fd, interest) ==
    LET g == get_file_descriptor_sm(w, this, fd)
    IN  IF g.w.halted # "run" THEN g.w
        ELSE LET w1 == notifyOnExceptionIs(g.w, g.fhSm, fd, interest)
             IN  IF ~interest
                 THEN maybeCleanupAfterFileDescriptor(w1, g.fhSm, fd)
                 ELSE w1

\* A callback invocation: fh->on_readable( fd ) and its siblings
Callback(fh, fd, kind) == [h |-> fh, fd |-> fd, kind |-> kind]

\* Bug variant: dispatching consumes the interest (one-shot notification).
handleReadable_ConsumesInterest(w, fdSm) ==
    LET w1 == [w EXCEPT !.sm2h = MapTouch(@, fdSm.fileHandlerSm)]
        fh == w1.sm2h[fdSm.fileHandlerSm]
    IN  IF fh = NULL
        THEN [w |-> Fault(w1), calls |-> <<>>]
        ELSE [w |-> [w1 EXCEPT !.heap[fdSm.fileHandlerSm][fdSm.fd]
                                   .fileDescriptor.notifyOnReadable = FALSE],
              calls |-> <<Callback(fh, fdSm.fd, "readable")>>]

\* FileDescriptorSm::handleReadable() on the record fdSm: the world after it
\* and the callbacks it invoked
handleReadable(w, fdSm) ==
    LET w1 == [w EXCEPT !.sm2h = MapTouch(@, fdSm.fileHandlerSm)]
        fh == w1.sm2h[fdSm.fileHandlerSm]
    IN  IF fh = NULL
        THEN [w |-> Fault(w1), calls |-> <<>>]
        ELSE [w |-> w1, calls |-> <<Callback(fh, fdSm.fd, "readable")>>]

\* Bug variant: the copied handle method still calls on_readable.
handleWritable_CallsOnReadable(w, fdSm) ==
    LET w1 == [w EXCEPT !.sm2h = MapTouch(@, fdSm.fileHandlerSm)]
        fh == w1.sm2h[fdSm.fileHandlerSm]
    IN  IF fh = NULL
        THEN [w |-> Fault(w1), calls |-> <<>>]
        ELSE [w |-> w1, calls |-> <<Callback(fh, fdSm.fd, "readable")>>]

\* FileDescriptorSm::handleWritable()
handleWritable(w, fdSm) ==
    LET w1 == [w EXCEPT !.sm2h = MapTouch(@, fdSm.fileHandlerSm)]
        fh == w1.sm2h[fdSm.fileHandlerSm]
    IN  IF fh = NULL
        THEN [w |-> Fault(w1), calls |-> <<>>]
        ELSE [w |-> w1, calls |-> <<Callback(fh, fdSm.fd, "writable")>>]

\* Bug variant: the copied handle method still calls on_writable too.
handleExceptionPending_AlsoWritable(w, fdSm) ==
    LET w1 == [w EXCEPT !.sm2h = MapTouch(@, fdSm.fileHandlerSm)]
        fh == w1.sm2h[fdSm.fileHandlerSm]
    IN  IF fh = NULL
        THEN [w |-> Fault(w1), calls |-> <<>>]
        ELSE [w |-> w1, calls |-> <<Callback(fh, fdSm.fd, "writable"),
                                    Callback(fh, fdSm.fd, "exception")>>]

\* FileDescriptorSm::handleExceptionPending()
handleExceptionPending(w, fdSm) ==
    LET w1 == [w EXCEPT !.sm2h = MapTouch(@, fdSm.fileHandlerSm)]
        fh == w1.sm2h[fdSm.fileHandlerSm]
    IN  IF fh = NULL
        THEN [w |-> Fault(w1), calls |-> <<>>]
        ELSE [w |-> w1, calls |-> <<Callback(fh, fdSm.fd, "exception")>>]

-----------------------------------------------------------------------------
(* inline/sdk.h: the lazy manager accessors *)

\* The managers sdk has an accessor for, in the order of the accessors.
MgrNames ==
    <<"acl", "agent", "decap_group", "directflow", "eth_intf", "eth_phy_intf",
      "fib", "intf", "ip_route", "mac_table", "mlag", "mount", "mpls_route",
      "neighbor_table", "nexthop_group", "policy_map", "system">>

Mgrs == {MgrNames[i] : i \in 1..MaxMgrs}

\* The sdk object, as the accessors transform it.
Sdk == [mgr |-> mgr_, inits |-> initCalls]

\* sdk::init_<X>_mgr(): creates the manager and sets the pointer to it. The
\* manager is named by the number of the initialization that created it.
init_mgr(s, m) ==
    [mgr   |-> [s.mgr EXCEPT ![m] = s.inits[m] + 1],
     inits |-> [s.inits EXCEPT ![m] = @ + 1]]

\* Bug variant: the null check is left out.
get_mgr_AlwaysInit(s, m) == init_mgr(s, m)

\* sdk::get_<X>_mgr(): the sdk object after the call; it returns its mgr[m]
get_mgr(s, m) == IF s.mgr[m] = NULL THEN init_mgr(s, m) ELSE s

-----------------------------------------------------------------------------
(* class_map.h: class_map_mgr and its resync *)

CmKeys == 1..MaxCmKeys
CmBodies == 1..MaxCmBodies

\* The manager, as its methods transform it.
ClassMapMgr == [sysdb |-> sysdb, inResync |-> inResync, table |-> resyncTable]

\* The table the manager acts like it is referencing.
Referenced(c) == IF c.inResync THEN c.table ELSE c.sysdb

\* class_map_mgr::resync_init()
resync_init(c) == [c EXCEPT !.inResync = TRUE, !.table = EmptyMap]

\* Bug variant: completing keeps the class maps the resync did not set.
resync_complete_KeepsOld(c) ==
    IF c.inResync
    THEN [sysdb    |-> [k \in DOMAIN c.sysdb \cup DOMAIN c.table |->
                          IF k \in DOMAIN c.table THEN c.table[k] ELSE c.sysdb[k]],
          inResync |-> FALSE,
          table    |-> EmptyMap]
    ELSE c

\* class_map_mgr::resync_complete(): the class maps that are not in the
\* table of the resync are deleted, the others are as the resync set them
resync_complete(c) ==
    IF c.inResync
    THEN [sysdb |-> c.table, inResync |-> FALSE, table |-> EmptyMap]
    ELSE c

\* class_map_mgr::exists( key )
exists(c, key) == key \in DOMAIN Referenced(c)

\* class_map_mgr::class_map( key ): NULL stands for a default class_map_t
class_map(c, key) ==
    IF key \in DOMAIN Referenced(c) THEN Referenced(c)[key] ELSE NULL

\* class_map_mgr::class_map_is( class_map ); during a resync the commit may
\* or may not reach Sysdb before resync_complete()
class_map_is(c, key, body, commit) ==
    IF c.inResync
    THEN [c EXCEPT !.table = Put(@, key, body),
                   !.sysdb = IF commit THEN Put(@, key, body) ELSE @]
    ELSE [c EXCEPT !.sysdb = Put(@, key, body)]

\* class_map_mgr::class_map_del( key )
class_map_del(c, key) ==
    IF c.inResync
    THEN [c EXCEPT !.table = MapErase(@, key)]
    ELSE [c EXCEPT !.sysdb = MapErase(@, key)]

\* class_map_mgr::class_map_iter(): the keys the iteration traverses
class_map_iter(c) == DOMAIN c.sysdb

-----------------------------------------------------------------------------
(* The caller and the polling collaborator *)

\* The setter the caller names by the flag kind it touches.
InterestIs(w, this, fd, kind, interest) ==
    CASE kind = "readable"  -> read_interest_is(w, this, fd, interest)
      [] kind = "writable"  -> write_interest_is(w, this, fd, interest)
      [] kind = "exception" -> exception_interest_is(w, this, fd, interest)

\* The handle method the collaborator calls for a readiness kind.
Handle(w, fdSm, kind) ==
    CASE kind = "readable"  -> handleReadable(w, fdSm)
      [] kind = "writable"  -> handleWritable(w, fdSm)
      [] kind = "exception" -> handleExceptionPending(w, fdSm)

\* The notifyOn attribute of a Tac::FileDescriptor for a readiness kind.
NotifyOn(fileDescriptor, kind) ==
    CASE kind = "readable"  -> fileDescriptor.notifyOnReadable
      [] kind = "writable"  -> fileDescriptor.notifyOnWritable
      [] kind = "exception" -> fileDescriptor.notifyOnException

\* The kinds a FileDescriptorSm record has the collaborator watch.
Flags(fdSm) == {k \in Kinds : NotifyOn(fdSm.fileDescriptor, k)}

\* How a faulted process ends: the assert aborts it, or with NDEBUG the null
\* pointer is dereferenced.
FaultOutcomes == {"assert", "segv"}

Commit(w) ==
    /\ fileHandlerToFileHandlerSm' = w.h2sm
    /\ fileHandlerSmToFileHandler' = w.sm2h
    /\ fileHandlerSms' = w.heap
    /\ halted' \in IF w.halted = "fault" THEN FaultOutcomes ELSE {halted}

RecordCount(heap) ==
    Cardinality({p \in Nodes \X Fds :
                   p[1] \in DOMAIN heap /\ p[2] \in DOMAIN heap[p[1]]})

NoInterest == [h \in Handlers |-> [fd \in Fds |-> {}]]

\* No class map was set or deleted in the resync.
Untouched == [k \in CmKeys |-> [op |-> "none", body |-> NULL]]

\* The latest class_map_mgr call and what it returned.
Answer(op, found, body, keys) ==
    [op |-> op, exists |-> found, class_map |-> body, iter |-> keys]

NoAnswer == Answer("none", FALSE, NULL, {})

Init ==
    /\ live = {}
    /\ fileHandlerToFileHandlerSm = EmptyMap
    /\ fileHandlerSmToFileHandler = EmptyMap
    /\ fileHandlerSms = EmptyMap
    /\ halted = "run"
    /\ running = <<>>
    /\ leftover = <<>>
    /\ requested = NoInterest
    /\ withdrawn = {}
    /\ destructed = <<>>
    /\ mgr_ = [m \in Mgrs |-> NULL]
    /\ initCalls = [m \in Mgrs |-> 0]
    /\ returned = <<>>
    /\ looping = FALSE
    /\ sysdb = EmptyMap
    /\ inResync = FALSE
    /\ resyncTable = EmptyMap
    /\ resyncLatest = Untouched
    /\ preResync = {}
    /\ answer = NoAnswer

\* The caller constructs a handler at address h; its FileHandlerSm is
\* allocated at any free heap address.
Construct(h, sm) ==
    /\ halted = "run"
    /\ running = <<>>
    /\ h \notin live
    /\ sm \in Nodes \ DOMAIN fileHandlerSms
    /\ Commit(file_handler_ctor(World, h, sm))
    /\ live' = live \cup {h}
    /\ UNCHANGED <<running, leftover, requested, withdrawn, destructed,
                   sdkVars, classMapVars>>

\* The caller destroys a live handler (from the top level).
DestroyHandler(h) ==
    /\ halted = "run"
    /\ running = <<>>
    /\ h \in live
    /\ Commit(file_handler_dtor(World, h))
    /\ live' = live \ {h}
    /\ requested' = [requested EXCEPT ![h] = [fd \in Fds |-> {}]]
    /\ UNCHANGED <<running, sdkVars, classMapVars>>

\* Destruction after which the collaborator holds nothing of the handler.
Destroy(h) ==
    /\ DestroyHandler(h)
    /\ UNCHANGED <<leftover, withdrawn, destructed>>

\* A setter call on a live handler, from the top level or from a callback.
SetInterest(h, fd, kind, interest) ==
    /\ halted = "run"
    /\ h \in live
    /\ UNCHANGED <<live, running, leftover, destructed, sdkVars, classMapVars>>
    /\ requested' = [requested EXCEPT ![h][fd] =
                        IF interest THEN @ \cup {kind} ELSE @ \ {kind}]
    /\ \/ ~interest
       \/ fd \in DOMAIN fileHandlerSms[fileHandlerToFileHandlerSm[h]]
       \/ RecordCount(fileHandlerSms) < MaxRecords
    /\ Commit(InterestIs(World, h, fd, kind, interest))

ReadInterestIs(h, fd, interest) ==
    SetInterest(h, fd, "readable", interest) /\ UNCHANGED withdrawn

WriteInterestIs(h, fd, interest) ==
    SetInterest(h, fd, "writable", interest) /\ UNCHANGED withdrawn

ExceptionInterestIs(h, fd, interest) ==
    SetInterest(h, fd, "exception", interest) /\ UNCHANGED withdrawn

\* The collaborator reports a watched condition on a record of a live
\* FileHandlerSm; the handle method invokes the callback.
Deliver(sm, fd, kind) ==
    /\ halted = "run"
    /\ running = <<>>
    /\ sm \in DOMAIN fileHandlerSms
    /\ fd \in DOMAIN fileHandlerSms[sm]
    /\ kind \in Flags(fileHandlerSms[sm][fd])
    /\ UNCHANGED <<live, leftover, requested, withdrawn, destructed,
                   sdkVars, classMapVars>>
    /\ LET r == Handle(World, fileHandlerSms[sm][fd], kind)
       IN  /\ running' = r.calls
           /\ Commit(r.w)

Readable(sm, fd) == Deliver(sm, fd, "readable")

Writable(sm, fd) == Deliver(sm, fd, "writable")

ExceptionPending(sm, fd) == Deliver(sm, fd, "exception")

\* The running callback returns.
Return ==
    /\ halted = "run"
    /\ running # <<>>
    /\ running' = Tail(running)
    /\ UNCHANGED <<live, fileHandlerToFileHandlerSm, fileHandlerSmToFileHandler,
                   fileHandlerSms, halted, leftover, requested, withdrawn,
                   destructed, sdkVars, classMapVars>>

Next ==
    \/ \E h \in Handlers, sm \in Nodes : Construct(h, sm)
    \/ \E h \in Handlers : Destroy(h)
    \/ \E h \in Handlers, fd \in Fds, interest \in BOOLEAN : ReadInterestIs(h, fd, interest)
    \/ \E h \in Handlers, fd \in Fds, interest \in BOOLEAN : WriteInterestIs(h, fd, interest)
    \/ \E h \in Handlers, fd \in Fds, interest \in BOOLEAN : ExceptionInterestIs(h, fd, interest)
    \/ \E sm \in Nodes, fd \in Fds : Readable(sm, fd)
    \/ \E sm \in Nodes, fd \in Fds : Writable(sm, fd)
    \/ \E sm \in Nodes, fd \in Fds : ExceptionPending(sm, fd)
    \/ Return

\* Normal operation: every record of a destroyed handler dies with it.
Spec == Init /\ [][Next]_vars

-----------------------------------------------------------------------------
(* Events that outlive the handler they were meant for *)

\* The records of a FileHandlerSm that the collaborator is watching.
Watched(sm) ==
    {fdSm \in {fileHandlerSms[sm][fd] : fd \in DOMAIN fileHandlerSms[sm]} :
        Flags(fdSm) # {}}

\* The FileHandlerSm is freed, but a watched FileDescriptorSm of it may
\* outlive it with an event of a watched kind pending: its fileHandlerSm()
\* is the address the freed FileHandlerSm had.
DestroyWatched(h) ==
    /\ DestroyHandler(h)
    /\ UNCHANGED destructed
    /\ withdrawn' = {p \in withdrawn : p[1] # h}
    /\ \/ leftover' = leftover
       \/ \E fdSm \in Watched(fileHandlerToFileHandlerSm[h]) : \E k \in Flags(fdSm) :
             leftover' = <<[fdSm |-> [fd |-> fdSm.fd, fileHandlerSm |-> fdSm.fileHandlerSm],
                            kind |-> k]>>

\* The pending event of the outliving record is delivered.
DeliverLeftover ==
    /\ halted = "run"
    /\ running = <<>>
    /\ leftover # <<>>
    /\ LET r == Handle(World, leftover[1].fdSm, leftover[1].kind)
       IN  /\ Commit(r.w)
           /\ running' = r.calls
    /\ leftover' = <<>>
    /\ UNCHANGED <<live, requested, withdrawn, destructed, sdkVars, classMapVars>>

\* A setter call, noting whether it withdrew the last interest of (h, fd).
SetInterestNoted(h, fd, kind, interest) ==
    /\ SetInterest(h, fd, kind, interest)
    /\ withdrawn' =
          IF interest THEN withdrawn \ {<<h, fd>>}
          ELSE IF requested[h][fd] # {} /\ requested[h][fd] \subseteq {kind}
               THEN withdrawn \cup {<<h, fd>>}
               ELSE withdrawn

NextLeftover ==
    \/ \E h \in Handlers, sm \in Nodes : Construct(h, sm)
    \/ \E h \in Handlers : DestroyWatched(h)
    \/ \E h \in Handlers, fd \in Fds, kind \in Kinds, interest \in BOOLEAN :
          SetInterestNoted(h, fd, kind, interest)
    \/ \E sm \in Nodes, fd \in Fds, kind \in Kinds : Deliver(sm, fd, kind)
    \/ DeliverLeftover
    \/ Return

SpecLeftover == Init /\ [][NextLeftover]_vars

-----------------------------------------------------------------------------
(* Teardown, and calls on handlers that are not registered *)

\* The caller destroys a live handler; the call is noted.
DestroyNoted(h) ==
    /\ DestroyHandler(h)
    /\ destructed' =
          <<[h     |-> h,
             fds   |-> DOMAIN fileHandlerSms[fileHandlerToFileHandlerSm[h]],
             again |-> FALSE]>>
    /\ UNCHANGED <<leftover, withdrawn>>

NextTeardown ==
    \/ \E h \in Handlers, sm \in Nodes : Construct(h, sm)
    \/ \E h \in Handlers : DestroyNoted(h)
    \/ \E h \in Handlers, fd \in Fds, interest \in BOOLEAN : ReadInterestIs(h, fd, interest)
    \/ \E h \in Handlers, fd \in Fds, interest \in BOOLEAN : WriteInterestIs(h, fd, interest)
    \/ \E h \in Handlers, fd \in Fds, interest \in BOOLEAN : ExceptionInterestIs(h, fd, interest)

SpecTeardown == Init /\ [][NextTeardown]_vars

\* The destructor runs a second time for the handler destroyed last, which
\* has no registry entry any more. The body runs as written; as the object's
\* lifetime has ended before, the process may also end there.
DestroyUnregistered(h) ==
    /\ halted = "run"
    /\ running = <<>>
    /\ h \notin live
    /\ destructed # <<>>
    /\ destructed[1].h = h
    /\ LET w == file_handler_dtor(World, h)
       IN  /\ fileHandlerToFileHandlerSm' = w.h2sm
           /\ fileHandlerSmToFileHandler' = w.sm2h
           /\ fileHandlerSms' = w.heap
    /\ halted' \in {"run", "segv"}
    /\ destructed' = <<[h |-> h, fds |-> {}, again |-> TRUE]>>
    /\ UNCHANGED <<live, running, leftover, requested, withdrawn,
                   sdkVars, classMapVars>>

\* A setter call on a handler address that has no registry entry.
SetInterestUnregistered(h, fd, kind, interest) ==
    /\ halted = "run"
    /\ h \notin live
    /\ Commit(InterestIs(World, h, fd, kind, interest))
    /\ UNCHANGED <<live, running, leftover, requested, withdrawn, destructed,
                   sdkVars, classMapVars>>

NextMisuse ==
    \/ NextTeardown
    \/ \E h \in Handlers : DestroyUnregistered(h)
    \/ \E h \in Handlers, fd \in Fds, kind \in Kinds, interest \in BOOLEAN :
          SetInterestUnregistered(h, fd, kind, interest)

SpecMisuse == Init /\ [][NextMisuse]_vars

-----------------------------------------------------------------------------
(* The setters over several descriptors and records *)

FrameFds == 1..MaxFrameFd

FrameRecords(heap) ==
    {p \in Nodes \X FrameFds : p[1] \in DOMAIN heap /\ p[2] \in DOMAIN heap[p[1]]}

\* A top-level setter call on a live handler for a descriptor of FrameFds.
FrameSetInterest(h, fd, kind, interest) ==
    /\ halted = "run"
    /\ h \in live
    /\ UNCHANGED <<live, running, leftover, requested, withdrawn, destructed,
                   sdkVars, classMapVars>>
    /\ \/ ~interest
       \/ fd \in DOMAIN fileHandlerSms[fileHandlerToFileHandlerSm[h]]
       \/ Cardinality(FrameRecords(fileHandlerSms)) < MaxFrameRecords
    /\ Commit(InterestIs(World, h, fd, kind, interest))

\* Handlers are constructed with the FileHandlerSm of handler h at address h.
NextFrame ==
    \/ \E h \in Handlers \cap Nodes : Construct(h, h)
    \/ \E h \in Handlers, fd \in FrameFds, kind \in Kinds, interest \in BOOLEAN :
          FrameSetInterest(h, fd, kind, interest)

SpecFrame == Init /\ [][NextFrame]_vars

-----------------------------------------------------------------------------
(* The sdk accessors in use *)

\* A call of get_<X>_mgr() for the manager m.
GetMgr(m) ==
    /\ initCalls[m] < MaxInits
    /\ LET s == get_mgr(Sdk, m)
       IN  /\ mgr_' = s.mgr
           /\ initCalls' = s.inits
           /\ returned' = <<[m |-> m, ptr |-> s.mgr[m]]>>
    /\ UNCHANGED <<looping, fileVars, classMapVars>>

\* sdk::main_loop(): get_agent_mgr()->main_loop( ... ); the agent's loop then
\* runs the code that makes the later calls.
MainLoop ==
    /\ ~looping
    /\ initCalls["agent"] < MaxInits
    /\ LET s == get_mgr(Sdk, "agent")
       IN  /\ mgr_' = s.mgr
           /\ initCalls' = s.inits
           /\ returned' = <<[m |-> "agent", ptr |-> s.mgr["agent"]]>>
    /\ looping' = TRUE
    /\ UNCHANGED <<fileVars, classMapVars>>

NextSdk ==
    \/ \E m \in Mgrs : GetMgr(m)
    \/ MainLoop

SpecSdk == Init /\ [][NextSdk]_vars

-----------------------------------------------------------------------------
(* class_map_mgr in use *)

CommitClassMap(c) ==
    /\ sysdb' = c.sysdb
    /\ inResync' = c.inResync
    /\ resyncTable' = c.table

ResyncInit ==
    /\ CommitClassMap(resync_init(ClassMapMgr))
    /\ resyncLatest' = Untouched
    /\ preResync' = DOMAIN sysdb
    /\ answer' = Answer("resync_init", FALSE, NULL, {})
    /\ UNCHANGED <<fileVars, sdkVars>>

ResyncComplete ==
    /\ CommitClassMap(resync_complete(ClassMapMgr))
    /\ answer' = Answer("resync_complete", FALSE, NULL, {})
    /\ UNCHANGED <<resyncLatest, preResync, fileVars, sdkVars>>

Exists(key) ==
    /\ answer' = Answer("exists", exists(ClassMapMgr, key), NULL, {})
    /\ UNCHANGED <<sysdb, inResync, resyncTable, resyncLatest, preResync,
                   fileVars, sdkVars>>

ClassMap(key) ==
    /\ answer' = Answer("class_map", FALSE, class_map(ClassMapMgr, key), {})
    /\ UNCHANGED <<sysdb, inResync, resyncTable, resyncLatest, preResync,
                   fileVars, sdkVars>>

ClassMapIs(key, body) ==
    /\ \E commit \in BOOLEAN :
          CommitClassMap(class_map_is(ClassMapMgr, key, body, commit))
    /\ resyncLatest' = IF inResync
                       THEN [resyncLatest EXCEPT ![key] = [op |-> "is", body |-> body]]
                       ELSE Untouched
    /\ preResync' = IF inResync THEN preResync ELSE {}
    /\ answer' = Answer("class_map_is", FALSE, NULL, {})
    /\ UNCHANGED <<fileVars, sdkVars>>

ClassMapIter ==
    /\ answer' = Answer("class_map_iter", FALSE, NULL, class_map_iter(ClassMapMgr))
    /\ UNCHANGED <<sysdb, inResync, resyncTable, resyncLatest, preResync,
                   fileVars, sdkVars>>

ClassMapDel(key) ==
    /\ CommitClassMap(class_map_del(ClassMapMgr, key))
    /\ resyncLatest' = IF inResync
                       THEN [resyncLatest EXCEPT ![key] = [op |-> "del", body |-> NULL]]
                       ELSE Untouched
    /\ preResync' = IF inResync THEN preResync ELSE {}
    /\ answer' = Answer("class_map_del", FALSE, NULL, {})
    /\ UNCHANGED <<fileVars, sdkVars>>

NextClassMap ==
    \/ ResyncInit
    \/ ResyncComplete
    \/ \E key \in CmKeys : Exists(key)
    \/ \E key \in CmKeys : ClassMap(key)
    \/ \E key \in CmKeys, body \in CmBodies : ClassMapIs(key, body)
    \/ ClassMapIter
    \/ \E key \in CmKeys : ClassMapDel(key)

SpecClassMap == Init /\ [][NextClassMap]_vars

-----------------------------------------------------------------------------
(* Properties *)

\* The FileHandlerSm of a registered handler, and its records.
SmOf(h) == fileHandlerToFileHandlerSm[h]

HasRecord(h, fd) ==
    /\ h \in DOMAIN fileHandlerToFileHandlerSm
    /\ SmOf(h) \in DOMAIN fileHandlerSms
    /\ fd \in DOMAIN fileHandlerSms[SmOf(h)]

RecordOf(h, fd) == fileHandlerSms[SmOf(h)][fd]

\* The collaborator watches condition kind on descriptor fd for handler h.
Watching(h, fd, kind) ==
    /\ HasRecord(h, fd)
    /\ RecordOf(h, fd).fileDescriptor.descriptor = fd
    /\ kind \in Flags(RecordOf(h, fd))

\* C1: while the process runs, the handler->state map and the state->handler
\* map are exact inverses over the live handlers: the handler->state map has
\* an entry exactly for each live handler, each entry is mirrored in the other
\* map, and the state->handler map has no other entry.
C1_RegistryInverse ==
    halted = "run" =>
       /\ DOMAIN fileHandlerToFileHandlerSm = live
       /\ \A h \in live :
             /\ SmOf(h) # NULL
             /\ SmOf(h) \in DOMAIN fileHandlerSmToFileHandler
             /\ fileHandlerSmToFileHandler[SmOf(h)] = h
       /\ \A sm \in DOMAIN fileHandlerSmToFileHandler :
             /\ fileHandlerSmToFileHandler[sm] \in live
             /\ SmOf(fileHandlerSmToFileHandler[sm]) = sm

\* C1 witness: a single live handler, registered in both maps, has interest
\* on a descriptor and a callback of it is running after a dispatch.
C1_Witness ==
    /\ Cardinality(live) = 1
    /\ Cardinality(DOMAIN fileHandlerSmToFileHandler) = 1
    /\ \E h \in live : \E fd \in Fds : requested[h][fd] # {}
    /\ running # <<>>

\* C2: every live handler has one FileHandlerSm of its own, allocated and
\* shared with no other live handler; no step replaces it while the handler
\* stays live; the step that constructs a handler allocates a FileHandlerSm
\* that did not exist, and the step that destroys it leaves that
\* FileHandlerSm freed and without a state->handler entry.
C2_StatePerHandler ==
    /\ \A h \in live : h \in DOMAIN fileHandlerToFileHandlerSm
                          /\ SmOf(h) \in DOMAIN fileHandlerSms
    /\ \A h1 \in live, h2 \in live : h1 # h2 => SmOf(h1) # SmOf(h2)

C2_OneStateForLife ==
    [][/\ C2_StatePerHandler
       /\ C2_StatePerHandler'
       /\ \A h \in live \cap live' :
             fileHandlerToFileHandlerSm'[h] = fileHandlerToFileHandlerSm[h]
       /\ \A h \in live' \ live :
             fileHandlerToFileHandlerSm'[h] \notin DOMAIN fileHandlerSms
       /\ \A h \in live \ live' :
             /\ SmOf(h) \notin DOMAIN fileHandlerSms'
             /\ SmOf(h) \notin DOMAIN fileHandlerSmToFileHandler']_vars

\* C2 witness: two live handlers, each with its FileHandlerSm, one of them
\* with a record.
C2_Witness ==
    /\ Cardinality(live) = 2
    /\ Cardinality(DOMAIN fileHandlerSms) = 2
    /\ RecordCount(fileHandlerSms) = 1

\* C3: in every state between calls, a record exists for (handler, fd) only
\* with at least one of its three flags true, and it exists whenever the
\* caller's latest setter calls left some interest on (handler, fd).
C3_RecordIffInterest ==
    halted = "run" =>
       /\ \A sm \in DOMAIN fileHandlerSms : \A fd \in DOMAIN fileHandlerSms[sm] :
             Flags(fileHandlerSms[sm][fd]) # {}
       /\ \A h \in live : \A fd \in Fds :
             requested[h][fd] # {} => HasRecord(h, fd)

\* C3 witness: a callback is running and the record it was dispatched
\* through is gone: the callback withdrew the last interest.
C3_Witness ==
    /\ running # <<>>
    /\ ~HasRecord(running[1].h, running[1].fd)

\* The records of every FileHandlerSm, as (FileHandlerSm, fd) pairs.
AllRecords(heap) ==
    {p \in Nodes \X Fds : p[1] \in DOMAIN heap /\ p[2] \in DOMAIN heap[p[1]]}

\* C4: a setter call with interest = true on a (handler, fd) without a record
\* creates exactly one record, for that descriptor, with the flag it set true
\* and the other two false; on a pair that has a record it creates none and
\* keeps the record; no other record appears or disappears.
C4_LazyCreation ==
    [][vars' # vars =>
       \A h \in Handlers, fd \in Fds, kind \in Kinds :
          SetInterest(h, fd, kind, TRUE) =>
             /\ halted' = "run"
             /\ AllRecords(fileHandlerSms') =
                   AllRecords(fileHandlerSms) \cup {<<SmOf(h), fd>>}
             /\ fileHandlerSms'[SmOf(h)][fd].fileDescriptor.descriptor = fd
             /\ ~HasRecord(h, fd) => Flags(fileHandlerSms'[SmOf(h)][fd]) = {kind}]_vars

\* C4 witness: a record created by a setter call, with exactly one flag.
C4_Witness ==
    \E h \in live : \E fd \in Fds :
       /\ HasRecord(h, fd)
       /\ Cardinality(Flags(RecordOf(h, fd))) = 1
       /\ requested[h][fd] = Flags(RecordOf(h, fd))

\* C5: a setter call with interest = false on a pair that has a record
\* removes the record exactly when no other flag than the cleared one was
\* true; a setter call with interest = true removes nothing; and whenever a
\* record of a handler that stays live disappears, at most one of its flags
\* was true before the step.
C5_EagerCleanup ==
    [][vars' # vars =>
       /\ \A h \in Handlers, fd \in Fds, kind \in Kinds :
             HasRecord(h, fd) /\ SetInterest(h, fd, kind, FALSE) =>
                /\ halted' = "run"
                /\ (fd \in DOMAIN fileHandlerSms'[SmOf(h)])
                      <=> (Flags(RecordOf(h, fd)) \ {kind} # {})
       /\ \A h \in Handlers, fd \in Fds, kind \in Kinds :
             SetInterest(h, fd, kind, TRUE) =>
                AllRecords(fileHandlerSms) \subseteq AllRecords(fileHandlerSms')
       /\ \A h \in live \cap live', fd \in Fds :
             HasRecord(h, fd) /\ fd \notin DOMAIN fileHandlerSms'[SmOf(h)] =>
                Cardinality(Flags(RecordOf(h, fd))) <= 1]_vars

\* C5 witness: the running callback cleared the flag it was dispatched for
\* while another flag was true, and the record is still there.
C5_Witness ==
    /\ running # <<>>
    /\ HasRecord(running[1].h, running[1].fd)
    /\ running[1].kind \notin Flags(RecordOf(running[1].h, running[1].fd))

\* C6: a setter call repeated with the same arguments changes nothing: in the
\* state a call leaves, the same call again leaves the registry maps, the
\* records, their flags and descriptors (what the collaborator watches) as
\* they are.
C6_Idempotent ==
    [][vars' # vars =>
       \A h \in Handlers, fd \in Fds, kind \in Kinds, interest \in BOOLEAN :
          SetInterest(h, fd, kind, interest) =>
             InterestIs(World', h, fd, kind, interest) = World']_vars

\* C6 witness: one live handler has a record with a flag true (the true->true
\* case) while another live handler has no record (false on no record).
C6_Witness ==
    \E h1 \in live, h2 \in live : \E fd \in Fds :
       /\ h1 # h2
       /\ HasRecord(h1, fd) /\ "exception" \in Flags(RecordOf(h1, fd))
       /\ ~HasRecord(h2, fd)

\* C7: an event of some kind delivered to the record for fd of a live
\* handler's FileHandlerSm invokes exactly one callback: that handler's
\* callback of that kind, with that fd; the process keeps running.
C7_DispatchCorrect ==
    [][\A sm \in Nodes, fd \in Fds, kind \in Kinds :
          Deliver(sm, fd, kind) =>
             /\ halted' = "run"
             /\ \E h \in live :
                   /\ SmOf(h) = sm
                   /\ running' = <<Callback(h, fd, kind)>>]_vars

\* C7 witness: with two live handlers, the writable callback of one is
\* running.
C7_Witness ==
    /\ Cardinality(live) = 2
    /\ Len(running) = 1
    /\ running[1].kind = "writable"
    /\ running[1].h \in live

\* C9: while the process runs, the collaborator watches a condition on a
\* descriptor for a live handler exactly when the handler's latest completed
\* setter call for that condition and descriptor passed interest = true, and
\* no record is left once all three were withdrawn.
C9_WatchFollowsInterest ==
    halted = "run" =>
       \A h \in live : \A fd \in Fds :
          /\ \A kind \in Kinds : Watching(h, fd, kind) <=> kind \in requested[h][fd]
          /\ requested[h][fd] = {} => ~HasRecord(h, fd)

\* C9 witness: the writable watch was started, its event dispatched, and
\* the writable callback withdrew the interest: the record is deleted and
\* nothing is watched on the descriptor.
C9_Witness ==
    /\ Len(running) = 1
    /\ running[1].kind = "writable"
    /\ requested[running[1].h][running[1].fd] = {}
    /\ ~HasRecord(running[1].h, running[1].fd)

\* C8: a leftover event for the former FileHandlerSm of a destroyed handler
\* ends the process on the fatal path and invokes no callback on any handler.
C8_PostTeardownFatal ==
    [][DeliverLeftover => halted' # "run" /\ running' = <<>>]_vars

\* C10: a setter call made while a callback runs leaves that callback
\* running, and no callback is dispatched for a (handler, fd) whose last
\* interest was withdrawn and not set true again.
C10_WithdrawalSuppressesDispatch ==
    [][/\ \A h \in Handlers, fd \in Fds, kind \in Kinds, interest \in BOOLEAN :
             SetInterestNoted(h, fd, kind, interest) => running' = running
       /\ running = <<>> =>
             \A i \in 1..Len(running') :
                <<running'[i].h, running'[i].fd>> \notin withdrawn]_vars

\* C20: a call of an accessor (directly or through main_loop) invokes the
\* manager's initializer exactly when its pointer is null, so no manager is
\* initialized more than once; it returns the manager the pointer designates,
\* which is the same on every later call; and it leaves every other manager's
\* pointer and initializer alone.
C20_LazyInitOnce ==
    [][\A m \in Mgrs :
          (GetMgr(m) \/ (m = "agent" /\ MainLoop)) =>
             /\ initCalls'[m] = initCalls[m] + (IF mgr_[m] = NULL THEN 1 ELSE 0)
             /\ initCalls'[m] <= 1
             /\ mgr_'[m] # NULL
             /\ mgr_[m] # NULL => mgr_'[m] = mgr_[m]
             /\ returned' = <<[m |-> m, ptr |-> mgr_'[m]]>>
             /\ \A o \in Mgrs \ {m} :
                   mgr_'[o] = mgr_[o] /\ initCalls'[o] = initCalls[o]]_vars

\* C20 witness: main_loop was entered, the acl manager was initialized too
\* and was the latest one returned, and another manager is still
\* uninitialized.
C20_Witness ==
    /\ looping
    /\ returned = <<[m |-> "acl", ptr |-> mgr_["acl"]]>>
    /\ initCalls["acl"] = 1 /\ initCalls["agent"] = 1
    /\ \E m \in Mgrs : mgr_[m] = NULL /\ initCalls[m] = 0

\* C14: resync_init() starts a resync on an empty temporary table and leaves
\* Sysdb alone; during the resync exists() and the class_map() getter answer
\* from what the caller set and deleted in this resync only, class_map_del()
\* leaves Sysdb alone, and iteration traverses the Sysdb table; and
\* resync_complete() leaves configured exactly the class maps whose latest
\* call in the resync was class_map_is(), with the contents it set, so every
\* class map configured before that the resync did not set is deleted.
C14_ResyncTable ==
    [][/\ ResyncInit => inResync' /\ resyncTable' = EmptyMap /\ sysdb' = sysdb
       /\ inResync =>
             /\ \A key \in CmKeys :
                   Exists(key) => answer'.exists = (resyncLatest[key].op = "is")
             /\ \A key \in CmKeys :
                   ClassMap(key) =>
                      answer'.class_map = IF resyncLatest[key].op = "is"
                                          THEN resyncLatest[key].body
                                          ELSE NULL
             /\ \A key \in CmKeys :
                   ClassMapDel(key) =>
                      sysdb' = sysdb /\ ~exists(ClassMapMgr', key)
             /\ ClassMapIter => answer'.iter = DOMAIN sysdb
             /\ ResyncComplete =>
                   /\ ~inResync'
                   /\ DOMAIN sysdb' = {k \in CmKeys : resyncLatest[k].op = "is"}
                   /\ \A k \in DOMAIN sysdb' : sysdb'[k] = resyncLatest[k].body
                   /\ \A k \in preResync :
                         resyncLatest[k].op # "is" => k \notin DOMAIN sysdb']_vars

\* C14 witness: a resync was completed in which one class map was set, one
\* was set and deleted again, and a class map configured before it was not
\* set: that one is gone.
C14_Witness ==
    /\ answer.op = "resync_complete"
    /\ ~inResync
    /\ \E k \in DOMAIN sysdb : resyncLatest[k].op = "is"
    /\ \E k \in preResync : k \notin DOMAIN sysdb
    /\ \E k \in CmKeys : resyncLatest[k].op = "del"

\* C11: at most one callback is executing at any time; while it executes no
\* further event is dispatched (the only steps are setter calls, which leave
\* it executing, and its return); and every step taken while it executes,
\* its return included, leaves the registry maps exact inverses over the live
\* handlers and every record with a true flag, present for every (handler,
\* fd) the caller has interest on.
C11_CallbackRunsToCompletion ==
    [][/\ Len(running') <= 1
       /\ running # <<>> =>
             /\ running' = running \/ running' = <<>>
             /\ halted' = "run"
             /\ DOMAIN fileHandlerToFileHandlerSm' = live'
             /\ \A h \in live' :
                   fileHandlerSmToFileHandler'[fileHandlerToFileHandlerSm'[h]] = h
             /\ DOMAIN fileHandlerSmToFileHandler' =
                   {fileHandlerToFileHandlerSm'[h] : h \in live'}
             /\ \A sm \in DOMAIN fileHandlerSms' : \A fd \in DOMAIN fileHandlerSms'[sm] :
                   Flags(fileHandlerSms'[sm][fd]) # {}
             /\ \A h \in live', fd \in Fds :
                   requested'[h][fd] # {} =>
                      fd \in DOMAIN fileHandlerSms'[fileHandlerToFileHandlerSm'[h]]]_vars

\* C11 witness: while its callback is executing, a handler's last interest
\* on the descriptor was withdrawn and another handler's interest on it was
\* set: two reentrant setter calls, the callback still not returned.
C11_Witness ==
    /\ Len(running) = 1
    /\ ~HasRecord(running[1].h, running[1].fd)
    /\ \E h \in live \ {running[1].h} : HasRecord(h, running[1].fd)

\* C12: the handle method that dispatches an event changes neither registry
\* map, nor any FileHandlerSm's set of records, nor any record's flags or
\* descriptor: all it does is invoke the callback.
C12_DispatchMutatesNothing ==
    [][\A sm \in Nodes, fd \in Fds, kind \in Kinds :
          Deliver(sm, fd, kind) =>
             /\ fileHandlerToFileHandlerSm' = fileHandlerToFileHandlerSm
             /\ fileHandlerSmToFileHandler' = fileHandlerSmToFileHandler
             /\ fileHandlerSms' = fileHandlerSms
             /\ running' # <<>>]_vars

\* C12 witness: the readable callback of one of two live handlers is
\* executing and the readable condition is still watched for it.
C12_Witness ==
    /\ Cardinality(live) = 2
    /\ Len(running) = 1
    /\ running[1].kind = "readable"
    /\ Watching(running[1].h, running[1].fd, "readable")

\* C15: in every reachable state, with or without a callback executing, a
\* setter call on any live handler and descriptor reaches the cleanup check
\* with the record present: get_file_descriptor_sm leaves a record for the
\* descriptor, and a call that withdraws an interest ends without a failed
\* assertion. No assertion has failed so far.
C15_CleanupFindsRecord ==
    /\ halted = "run"
    /\ \A h \in live, fd \in Fds :
          LET g == get_file_descriptor_sm(World, h, fd)
          IN  /\ g.w.halted = "run"
              /\ fd \in DOMAIN g.w.heap[g.fhSm]
              /\ \A kind \in Kinds :
                    InterestIs(World, h, fd, kind, FALSE).halted = "run"

\* C15 witness: the readable callback is executing and has withdrawn the
\* last interest of its descriptor: the cleanup check ran reentrantly and
\* deleted the record.
C15_Witness ==
    /\ Len(running) = 1
    /\ running[1].kind = "readable"
    /\ requested[running[1].h][running[1].fd] = {}
    /\ ~HasRecord(running[1].h, running[1].fd)

\* C16: every record is stored under its own descriptor number, its
\* Tac::FileDescriptor has that number, and its fileHandlerSm() is the
\* FileHandlerSm that holds it; a record that stays keeps its number and its
\* FileHandlerSm; and the fd a dispatch passes to the callback is the key of
\* the record, on which the caller has the interest of that kind.
C16_RecordKeyedByFd ==
    [][/\ \A sm \in DOMAIN fileHandlerSms' : \A fd \in DOMAIN fileHandlerSms'[sm] :
             /\ fileHandlerSms'[sm][fd].fd = fd
             /\ fileHandlerSms'[sm][fd].fileDescriptor.descriptor = fd
             /\ fileHandlerSms'[sm][fd].fileHandlerSm = sm
       /\ \A p \in AllRecords(fileHandlerSms) \cap AllRecords(fileHandlerSms') :
             /\ fileHandlerSms'[p[1]][p[2]].fileDescriptor.descriptor =
                   fileHandlerSms[p[1]][p[2]].fileDescriptor.descriptor
             /\ fileHandlerSms'[p[1]][p[2]].fileHandlerSm =
                   fileHandlerSms[p[1]][p[2]].fileHandlerSm
       /\ \A sm \in Nodes, fd \in Fds, kind \in Kinds :
             Deliver(sm, fd, kind) =>
                \A i \in 1..Len(running') :
                   /\ running'[i].fd = fileHandlerSms[sm][fd].fileDescriptor.descriptor
                   /\ kind \in requested[running'[i].h][running'[i].fd]]_vars

\* C16 witness: a callback is executing for a descriptor whose record is
\* held by the handler's FileHandlerSm under that number, with all three
\* flags true.
C16_Witness ==
    /\ Len(running) = 1
    /\ HasRecord(running[1].h, running[1].fd)
    /\ RecordOf(running[1].h, running[1].fd).fileDescriptor.descriptor = running[1].fd
    /\ RecordOf(running[1].h, running[1].fd).fileHandlerSm = SmOf(running[1].h)
    /\ Flags(RecordOf(running[1].h, running[1].fd)) = Kinds

\* C13: a destructor call for a handler that has no registry entry ends the
\* process, and whatever it does the two maps stay exact inverses over the
\* live handlers while the process runs.
C13_DoubleUnregisterAborts ==
    [][\A h \in Handlers :
          DestroyUnregistered(h) =>
             /\ halted' # "run"
             /\ DOMAIN fileHandlerToFileHandlerSm' = live'
             /\ DOMAIN fileHandlerSmToFileHandler' =
                   {fileHandlerToFileHandlerSm'[l] : l \in live'}]_vars

C18_SetterFrame ==
    \A h \in live, fd \in FrameFds, kind \in Kinds, interest \in BOOLEAN :
       LET w == InterestIs(World, h, fd, kind, interest)
       IN  /\ w.halted = "run"
           /\ w.h2sm = fileHandlerToFileHandlerSm
           /\ w.sm2h = fileHandlerSmToFileHandler
           /\ DOMAIN w.heap = DOMAIN fileHandlerSms
           /\ \A p \in (Nodes \X FrameFds) \ {<<SmOf(h), fd>>} :
                 /\ p \in FrameRecords(w.heap) <=> p \in FrameRecords(fileHandlerSms)
                 /\ p \in FrameRecords(fileHandlerSms) =>
                       w.heap[p[1]][p[2]] = fileHandlerSms[p[1]][p[2]]
           /\ fd \in DOMAIN w.heap[SmOf(h)] =>
                 /\ w.heap[SmOf(h)][fd].fileDescriptor.descriptor = fd
                 /\ w.heap[SmOf(h)][fd].fileHandlerSm = SmOf(h)
                 /\ Flags(w.heap[SmOf(h)][fd]) \ {kind} =
                       IF HasRecord(h, fd) THEN Flags(RecordOf(h, fd)) \ {kind} ELSE {}

\* C18 witness: one handler has a record with two flags true for one
\* descriptor while another handler has a record for another descriptor.
C18_Witness ==
    \E h1 \in live, h2 \in live : \E fd1 \in FrameFds, fd2 \in FrameFds :
       /\ h1 # h2 /\ fd1 # fd2
       /\ HasRecord(h1, fd1) /\ Cardinality(Flags(RecordOf(h1, fd1))) = 2
       /\ HasRecord(h2, fd2)

\* C19: a setter call on a handler that has no registry entry fails the
\* assertion, creates no record, and adds no entry to either registry map.
C19_UnregisteredSetterRejected ==
    [][\A h \in Handlers, fd \in Fds, kind \in Kinds, interest \in BOOLEAN :
          SetInterestUnregistered(h, fd, kind, interest) =>
             /\ halted' = "assert"
             /\ fileHandlerSms' = fileHandlerSms
             /\ fileHandlerToFileHandlerSm' = fileHandlerToFileHandlerSm
             /\ fileHandlerSmToFileHandler' = fileHandlerSmToFileHandler]_vars

====
